---------------------------- MODULE Spec2Model ----------------------------
(***************************************************************************)
(* Model of src/main.js: the six-planet scene, its main loop `animate`,    *)
(* the camera animator `animateCamera` / `updateCamera`, the zoom          *)
(* triggers, the starfield recycler and the planets' fragment shader.      *)
(*                                                                         *)
(* Numbers.  JavaScript numbers are modelled as exact rationals on a       *)
(* fixed-point grid: the integer n stands for n / Grid.  Grid is chosen so *)
(* that 0.001, 0.0015 and every interpolated position the bounded model    *)
(* can produce are integers (invariant GridExact checks that no            *)
(* interpolation ever rounds).  Rounding of IEEE-754 binary64 is not part  *)
(* of the model.                                                           *)
(*                                                                         *)
(* Scheduling.  requestAnimationFrame appends to rafQueue.  A frame        *)
(* (BeginFrame) moves the whole queue to `running`; the callbacks then run *)
(* one at a time in registration order, and callbacks registered while the *)
(* frame runs wait for the next frame.  DOM events are dispatched only     *)
(* between frames (JavaScript runs each task to completion).               *)
(***************************************************************************)
EXTENDS Integers, Sequences, FiniteSets, TLC

\* ------------------------------------------------------------ bounds
MaxClicks == 2
MaxFrames == 5
NumStars == 2
EaseGrid == 8

\* ------------------------------------------------------------ constants
planetCount == 6
defaultDuration == 2000
nearThreshold == 5
recycleDistance == 500
initialCameraZ == 50

\* Elapsed time between two frames, in ms (performance.now() is sampled on
\* a 500 ms grid, so that t = elapsed / 2000 is a multiple of 1/4 and the
\* eased t a multiple of 1/8).
FrameDeltas == {0, 500, 1000}

\* Every animation interpolates from a position of denominator 8^j to one
\* of denominator 8^(j+1); 2000 makes 0.0005 an integer.
Grid == 2000 * (8 ^ MaxClicks)

\* The rational num/den on the grid.
Fx(num, den) == (num * Grid) \div den

Vec(x, y, z) == [x |-> x, y |-> y, z |-> z]

\* new THREE.Vector3(x, y, z) with integer coordinates
V3(x, y, z) == Vec(x * Grid, y * Grid, z * Grid)

Sub(a, b) == Vec(a.x - b.x, a.y - b.y, a.z - b.z)

Zones == 1 .. planetCount
PlanetIds == 0 .. (planetCount - 1)
StarIds == 1 .. NumStars

VARIABLES
  started,                \* the script has run to its end (animate() called)
  camera,                 \* camera.position
  initialCameraPosition,  \* the Vector3 cloned at initialisation
  planets,                \* planets[i]: position, rotationY, uPlanet
  stars,                  \* starGeometry position attribute, per star
  isZooming,
  now,                    \* performance.now()
  rafQueue,               \* callbacks registered for the next frame
  running,                \* callbacks of the current frame not yet run
  rendered,               \* camera position of the last renderer.render
  hoverDiv,               \* the .effect div carrying class animatedDiv (0: none)
  frames,                 \* frames delivered so far
  clicks,                 \* click events dispatched so far
  lastClick,              \* zone of the last click's target (0: outside every zone)
  anims,                  \* calls of animateCamera so far
  frameLog,               \* the callbacks run in the current frame, in order
  probe                   \* inputs and results of the easing function on its own

vars == <<started, camera, initialCameraPosition, planets, stars, isZooming,
          now, rafQueue, running, rendered, hoverDiv, frames, clicks, lastClick,
          anims, frameLog, probe>>

sceneVars == <<started, camera, initialCameraPosition, planets, stars, isZooming,
               now, rafQueue, running, rendered, hoverDiv, frames, clicks,
               lastClick, anims, frameLog>>

\* ------------------------------------------------------------ fractions
RECURSIVE GCD(_, _)
GCD(a, b) == IF b = 0 THEN a ELSE GCD(b, a % b)

\* The fraction n/d (n >= 0, d > 0) in lowest terms.
Frac(n, d) == LET g == GCD(n, d) IN <<n \div g, d \div g>>

\* q * a for a grid value q and a fraction a; exact when a[2] divides q.
MulFrac(q, a) ==
  IF q % a[2] = 0 THEN (q \div a[2]) * a[1] ELSE (q * a[1]) \div a[2]

\* a <= b for fractions with positive denominators
FracLeq(a, b) == a[1] * b[2] <= b[1] * a[2]

FracSub(a, b) == Frac(a[1] * b[2] - b[1] * a[2], a[2] * b[2])

FracMul(a, b) == Frac(a[1] * b[1], a[2] * b[2])

\* a / b for b > 0
FracDiv(a, b) == Frac(a[1] * b[2], a[2] * b[1])

\* ------------------------------------------------------------ animator
\* Variant of Progress: t = elapsed / duration, without the Math.min.
ProgressUnclamped(elapsed, duration) == Frac(elapsed, duration)

\* const t = Math.min(elapsed / duration, 1)
Progress(elapsed, duration) ==
  IF elapsed >= duration THEN <<1, 1>> ELSE Frac(elapsed, duration)

\* Variants of easeInOutQuad: the first branch is t * t; the second branch is
\* -1 + (4 + 2 * t) * t.
easeFirstBranchSquare(t) ==
  LET n == t[1]
      d == t[2]
  IN IF 2 * n < d
       THEN Frac(n * n, d * d)
       ELSE Frac(4 * n * d - 2 * n * n - d * d, d * d)

easeSecondBranchPlus(t) ==
  LET n == t[1]
      d == t[2]
  IN IF 2 * n < d
       THEN Frac(2 * n * n, d * d)
       ELSE Frac(4 * n * d + 2 * n * n - d * d, d * d)

\* const easeInOutQuad = t < 0.5 ? 2 * t * t : -1 + (4 - 2 * t) * t
easeInOutQuad(t) ==
  LET n == t[1]
      d == t[2]
  IN IF 2 * n < d
       THEN Frac(2 * n * n, d * d)
       ELSE Frac(4 * n * d - 2 * n * n - d * d, d * d)

\* Vector3.lerpVectors(v1, v2, alpha): v1 + (v2 - v1) * alpha, per component
lerpVectors(v1, v2, alpha) ==
  Vec(v1.x + MulFrac(v2.x - v1.x, alpha),
      v1.y + MulFrac(v2.y - v1.y, alpha),
      v1.z + MulFrac(v2.z - v1.z, alpha))

\* Variants of continueAnimating: the step is requested again whatever t is;
\* the comparison is t <= 1.
continueAlways(t) == TRUE

continueInclusive(t) == t[1] <= t[2]

\* if (t < 1) requestAnimationFrame(updateCamera)
continueAnimating(t) == t[1] < t[2]

\* The main loop's entry of the frame-callback list.
AnimateCb ==
  [fn |-> "animate", id |-> 0, startPosition |-> V3(0, 0, 0),
   targetPosition |-> V3(0, 0, 0), startTime |-> 0, duration |-> 0]

\* The closure updateCamera of the id-th call of animateCamera.
UpdateCameraCb(id, startPosition, targetPosition, startTime, duration) ==
  [fn |-> "updateCamera", id |-> id, startPosition |-> startPosition,
   targetPosition |-> targetPosition, startTime |-> startTime, duration |-> duration]

\* What a DOM event handler may change: the callback list, the number of
\* animateCamera calls and the flag.
Handlers == [rafQueue |-> rafQueue, anims |-> anims, isZooming |-> isZooming]

\* Variant of animateCamera: a new animation cancels the steps of the ones in
\* flight.
animateCameraCancels(st, targetPosition, duration) ==
  [rafQueue |-> Append(SelectSeq(st.rafQueue, LAMBDA cb : cb.fn = "animate"),
                       UpdateCameraCb(st.anims + 1, camera, targetPosition, now, duration)),
   anims |-> st.anims + 1,
   isZooming |-> FALSE]

\* Variant of animateCamera: the step is registered ahead of the callbacks
\* already waiting for the next frame.
animateCameraFirst(st, targetPosition, duration) ==
  [rafQueue |-> <<UpdateCameraCb(st.anims + 1, camera, targetPosition, now, duration)>>
                  \o st.rafQueue,
   anims |-> st.anims + 1,
   isZooming |-> FALSE]

\* animateCamera(targetPosition, duration), called in handler state st
animateCamera(st, targetPosition, duration) ==
  [rafQueue |-> Append(st.rafQueue,
                       UpdateCameraCb(st.anims + 1, camera, targetPosition, now, duration)),
   anims |-> st.anims + 1,
   isZooming |-> FALSE]

\* The offset zoomToImage subtracts from the planet's position.
zoomOffset == V3(2, 1, -5)

\* Variant of zoomToImage: the offset is added (.add for .sub).
zoomToImageAdds(st, index) ==
  animateCamera(st, Vec(planets[index].position.x + zoomOffset.x,
                        planets[index].position.y + zoomOffset.y,
                        planets[index].position.z + zoomOffset.z), defaultDuration)

\* zoomToImage(index)
zoomToImage(st, index) ==
  animateCamera(st, Sub(planets[index].position, zoomOffset), defaultDuration)

\* Variant of zoomBackToInitialPosition: the way back takes 1000 ms longer.
zoomBackSlowly(st) ==
  animateCamera(st, initialCameraPosition, defaultDuration + 1000)

\* zoomBackToInitialPosition()
zoomBackToInitialPosition(st) ==
  animateCamera(st, initialCameraPosition, defaultDuration)

\* The click listener of #zoomToImage<zone>; it runs when the click's target
\* is inside that zone (target = 0: inside no zone).
zoneListener(st, target) ==
  IF target \in Zones THEN zoomToImage(st, target - 1) ELSE st

\* Variant of documentListener: it zooms back whatever the click's target is.
documentListenerAlways(st, target) == zoomBackToInitialPosition(st)

\* The document's click listener: it zooms back when every
\* closest('#zoomToImage<k>') of the click's target is null.
documentListener(st, target) ==
  IF target \notin Zones THEN zoomBackToInitialPosition(st) ELSE st

\* ------------------------------------------------------------ main loop
cameraDrift == Fx(1, 1000)
planetDrift == Fx(15, 10000)
planetSpin == Fx(1, 1000)

\* if (positions[i * 3 + 2] + camera.position.z > 5) positions[i * 3 + 2] -= 500
recycleStar(star, cameraZ) ==
  IF star.z + cameraZ > nearThreshold * Grid
    THEN [star EXCEPT !.z = @ - recycleDistance * Grid]
    ELSE star

\* planets.forEach(image => { image.position.z -= 0.0015; image.rotation.y += 0.001 })
driftPlanet(p) ==
  [p EXCEPT !.position.z = @ - planetDrift, !.rotationY = @ + planetSpin]

\* The body of animate().
animateBody ==
  LET cam == [camera EXCEPT !.z = @ - cameraDrift]
  IN /\ rafQueue' = Append(rafQueue, AnimateCb)
     /\ camera' = cam
     /\ planets' = [i \in PlanetIds |-> driftPlanet(planets[i])]
     /\ stars' = [i \in StarIds |-> recycleStar(stars[i], cam.z)]
     /\ rendered' = cam

\* ------------------------------------------------------------ fragment shader
\* Shader floats are exact.  A rational is a fraction <<n, d>>; a value that
\* is a square root of a rational is kept by its sign and its square; an
\* angle is kept by its sine (and cosine).  The interpolated normal vNormal
\* is the unit vector v / |v| of an integer direction v.
Sgn(i) == IF i > 0 THEN 1 ELSE IF i < 0 THEN -1 ELSE 0

\* sign * sqrt(n / d)
Surd(sign, n, d) == [sign |-> IF n = 0 THEN 0 ELSE sign, sq |-> Frac(n, d)]

\* c >= r and c <= r, for a signed root c and a fraction r
SurdGeq(c, r) ==
  IF r[1] <= 0
    THEN c.sign >= 0 \/ c.sq[1] * r[2] * r[2] <= r[1] * r[1] * c.sq[2]
    ELSE c.sign > 0 /\ c.sq[1] * r[2] * r[2] >= r[1] * r[1] * c.sq[2]

SurdLeq(c, r) == SurdGeq([c EXCEPT !.sign = 0 - @], <<0 - r[1], r[2]>>)

LengthSq(v) == v.x * v.x + v.y * v.y + v.z * v.z

\* The value c * scale + offset of a signed root c (scale > 0).
Affine(c, scale, offset) == [of |-> c, scale |-> scale, offset |-> offset]

AffineGeq(a, r) == SurdGeq(a.of, FracDiv(FracSub(r, a.offset), a.scale))

AffineLeq(a, r) == SurdLeq(a.of, FracDiv(FracSub(r, a.offset), a.scale))

\* sin^2(10 * theta) from s = sin^2(theta):
\* sin(10 theta) = sin(theta) * cos(theta) * P(cos^2(theta)) with
\* P(c) = 512 c^4 - 1024 c^3 + 672 c^2 - 160 c + 10.
SinTenSq(s) ==
  LET n == s[1]
      d == s[2]
      a == d - n
      p == 512 * a^4 - 1024 * a^3 * d + 672 * a^2 * d^2 - 160 * a * d^3 + 10 * d^4
  IN Frac(n * a * p * p, d^10)

\* float latitude = asin(vNormal.y), kept by its sine vNormal.y
latitude(v) == Surd(Sgn(v.y), v.y * v.y, LengthSq(v))

\* float longitude = atan(vNormal.z, vNormal.x); GLSL leaves atan(0, 0)
\* undefined: at the poles the result is atan00, any angle.
longitude(v, atan00) ==
  IF v.x = 0 /\ v.z = 0
    THEN atan00
    ELSE [cos |-> Surd(Sgn(v.x), v.x * v.x, v.x * v.x + v.z * v.z),
          sin |-> Surd(Sgn(v.z), v.z * v.z, v.x * v.x + v.z * v.z)]

\* sphericalUV.x = (longitude + PI) / (2 PI), sphericalUV.y = (latitude +
\* PI/2) / PI: increasing in the angle, each is kept by its angle.
sphericalUV(v, atan00) == [x |-> longitude(v, atan00), y |-> latitude(v)]

\* vec3(r, g, b), in tenths
vec3(r, g, b) == <<r, g, b>>

\* mix(x, y, a) = x * (1 - a) + y * a for 0 <= a <= 1, a kept by its square
mix(x, y, aSq) == [x |-> x, y |-> y, aSq |-> aSq]

\* step(edge, n)
step(edge, n) == IF FracLeq(edge, n) THEN <<1, 1>> ELSE <<0, 1>>

\* smoothstep(edge0, edge1, n): t * t * (3 - 2 t), t = clamp((n - edge0) / (edge1 - edge0), 0, 1)
smoothstep(edge0, edge1, n) ==
  LET t == IF FracLeq(n, edge0) THEN <<0, 1>>
           ELSE IF FracLeq(edge1, n) THEN <<1, 1>>
           ELSE FracDiv(FracSub(n, edge0), FracSub(edge1, edge0))
  IN FracMul(FracMul(t, t), FracSub(<<3, 1>>, FracMul(<<2, 1>>, t)))

\* float bands = abs(sin(sphericalUV.y * PI * 10.0)) = |sin(10 latitude + 5 PI)|
\* = |sin(10 latitude)|, squared.  Variant: the bands run along sphericalUV.x.
bandsAlongU(uv) == SinTenSq(uv.x.sin.sq)

bands(uv) == SinTenSq(uv.y.sq)

\* float swirl = abs(sin(sphericalUV.x * PI * 20.0)) = |sin(10 longitude)|, squared
swirl(uv) == SinTenSq(uv.x.sin.sq)

\* The branch of the style dispatch that uPlanet selects ("none": no branch,
\* color stays vec3(0.0)).
styleBranch(uPlanet) ==
  IF uPlanet = 0 THEN "earth"
  ELSE IF uPlanet = 1 THEN "mars"
  ELSE IF uPlanet = 2 THEN "saturn"
  ELSE IF uPlanet = 3 THEN "icy"
  ELSE IF uPlanet = 4 THEN "gas"
  ELSE IF uPlanet = 5 THEN "volcanic"
  ELSE "none"

\* The colour before lighting; n is the value of fbm(st) at the fragment.
unlitColor(uv, uPlanet, n) ==
  LET branch == styleBranch(uPlanet)
  IN IF branch = "earth" THEN mix(vec3(0, 3, 7), vec3(1, 7, 1), step(<<1, 2>>, n))
     ELSE IF branch = "mars" THEN mix(vec3(5, 2, 1), vec3(8, 4, 3), step(<<2, 5>>, n))
     ELSE IF branch = "saturn" THEN mix(vec3(9, 8, 6), vec3(8, 7, 5), bands(uv))
     ELSE IF branch = "icy" THEN mix(vec3(7, 8, 9), vec3(9, 9, 10), step(<<9, 20>>, n))
     ELSE IF branch = "gas"
       THEN mix(vec3(9, 6, 4), vec3(7, 4, 2), FracMul(swirl(uv), FracMul(n, n)))
     ELSE IF branch = "volcanic"
       THEN LET m == smoothstep(<<9, 20>>, <<13, 20>>, n)
            IN mix(vec3(2, 2, 2), vec3(9, 3, 1), FracMul(m, m))
     ELSE mix(vec3(0, 0, 0), vec3(0, 0, 0), <<0, 1>>)

\* dot(normalize(vNormal), lightDir), lightDir = normalize(vec3(1.0, 1.0, 1.0)):
\* (x + y + z) / (|v| * sqrt(3))
dotLightDir(v) ==
  Surd(Sgn(v.x + v.y + v.z), (v.x + v.y + v.z) * (v.x + v.y + v.z), 3 * LengthSq(v))

\* Variant of lightIntensity: the dot product is not halved.
lightIntensityUnscaled(v) == Affine(dotLightDir(v), <<1, 1>>, <<1, 2>>)

\* float lightIntensity = dot(normalize(vNormal), lightDir) * 0.5 + 0.5
lightIntensity(v) == Affine(dotLightDir(v), <<1, 2>>, <<1, 2>>)

\* main() of the fragment shader: gl_FragColor.rgb is color * lightIntensity,
\* kept as its two factors.
fragmentShader(v, uPlanet, n, atan00) ==
  [color |-> unlitColor(sphericalUV(v, atan00), uPlanet, n),
   lightIntensity |-> lightIntensity(v)]

\* ------------------------------------------------------------ initial state
\* Planet positions are ((random - 0.1) * 100, (random - 0.1) * 100,
\* (random - 3.2) * 100): x, y in [-10, 90), z in [-320, -220).
LayoutA == [i \in PlanetIds |-> V3(10 * i, 80 - 10 * i, -230 - 10 * i)]

LayoutB == [i \in PlanetIds |-> V3(85 - 15 * i, 3 * i - 10, -300 + 12 * i)]

PlanetLayouts == {LayoutA, LayoutB}

\* Star positions lie at distance [50, 500) from the origin.
StarChoices ==
  { V3(30, 40, -40), V3(0, 80, -46), V3(0, 0, 460) }

InitStars == [i \in StarIds |-> IF i % 2 = 1 THEN V3(30, 40, -40) ELSE V3(0, 0, 460)]

NoProbe == [stage |-> "off", t1 |-> <<0, 1>>, t2 |-> <<0, 1>>,
            e1 |-> <<0, 1>>, e2 |-> <<0, 1>>]

\* The state after the script's set-up code, before its call of animate().
InitScene(layouts) ==
  /\ started = FALSE
  /\ camera = V3(0, 0, initialCameraZ)
  /\ initialCameraPosition = V3(0, 0, initialCameraZ)
  /\ \E layout \in layouts :
       planets = [i \in PlanetIds |->
                    [position |-> layout[i], rotationY |-> 0, uPlanet |-> i]]
  /\ isZooming = TRUE
  /\ now = 0
  /\ rafQueue = <<>>
  /\ running = <<>>
  /\ rendered = V3(0, 0, initialCameraZ)
  /\ hoverDiv = 0
  /\ frames = 0
  /\ clicks = 0
  /\ lastClick = 0
  /\ anims = 0
  /\ frameLog = <<>>

Init ==
  /\ InitScene(PlanetLayouts)
  /\ stars = InitStars
  /\ probe = NoProbe

\* One planet layout, the stars as in Init.
InitOne ==
  /\ InitScene({LayoutA})
  /\ stars = InitStars
  /\ probe = NoProbe

\* ------------------------------------------------------------ actions
\* animate() at the end of the script
Load ==
  /\ ~started
  /\ started' = TRUE
  /\ animateBody
  /\ UNCHANGED <<initialCameraPosition, isZooming, now, running, hoverDiv,
                 frames, clicks, lastClick, anims, frameLog, probe>>

\* The browser starts a frame d ms after the previous event.
BeginFrame(d) ==
  /\ started
  /\ running = <<>>
  /\ frames < MaxFrames
  /\ frames' = frames + 1
  /\ now' = now + d
  /\ running' = rafQueue
  /\ rafQueue' = <<>>
  /\ frameLog' = <<>>
  /\ UNCHANGED <<started, camera, initialCameraPosition, planets, stars, isZooming,
                 rendered, hoverDiv, clicks, lastClick, anims, probe>>

\* The frame runs the main loop's callback.
RunAnimate ==
  /\ running # <<>>
  /\ Head(running).fn = "animate"
  /\ running' = Tail(running)
  /\ animateBody
  /\ frameLog' = Append(frameLog, [cb |-> Head(running), done |-> FALSE])
  /\ UNCHANGED <<started, initialCameraPosition, isZooming, now, hoverDiv,
                 frames, clicks, lastClick, anims, probe>>

\* The frame runs one animation's updateCamera.
RunUpdateCamera ==
  /\ running # <<>>
  /\ Head(running).fn = "updateCamera"
  /\ LET cb == Head(running)
         elapsed == now - cb.startTime
         t == Progress(elapsed, cb.duration)
         pos == lerpVectors(cb.startPosition, cb.targetPosition, easeInOutQuad(t))
     IN /\ camera' = pos
        /\ rendered' = pos
        /\ IF continueAnimating(t)
             THEN /\ rafQueue' = Append(rafQueue, cb)
                  /\ UNCHANGED isZooming
             ELSE /\ isZooming' = TRUE
                  /\ UNCHANGED rafQueue
        /\ frameLog' = Append(frameLog, [cb |-> cb, done |-> ~continueAnimating(t)])
  /\ running' = Tail(running)
  /\ UNCHANGED <<started, initialCameraPosition, planets, stars, now, hoverDiv,
                 frames, clicks, lastClick, anims, probe>>

\* A click whose target is inside zone `target` (0: inside no zone): the
\* zone's listener runs, then the event bubbles to the document's listener.
Click(target) ==
  /\ started
  /\ running = <<>>
  /\ clicks < MaxClicks
  /\ clicks' = clicks + 1
  /\ lastClick' = target
  /\ LET st == documentListener(zoneListener(Handlers, target), target)
     IN /\ rafQueue' = st.rafQueue
        /\ anims' = st.anims
        /\ isZooming' = st.isZooming
  /\ UNCHANGED <<started, camera, initialCameraPosition, planets, stars, now,
                 running, rendered, hoverDiv, frames, frameLog, probe>>

\* Variant of MouseEnter: the handler also writes the div's effect id k to
\* the planet's style uniform (the assignment commented out in the handler).
MouseEnterRestyles(k) ==
  /\ started
  /\ running = <<>>
  /\ hoverDiv = 0
  /\ hoverDiv' = k
  /\ planets' = [planets EXCEPT ![k - 1].uPlanet = k]
  /\ UNCHANGED <<started, camera, initialCameraPosition, stars, isZooming,
                 now, rafQueue, running, rendered, frames, clicks, lastClick,
                 anims, frameLog, probe>>

\* mouseenter on .effect div k
MouseEnter(k) ==
  /\ started
  /\ running = <<>>
  /\ hoverDiv = 0
  /\ hoverDiv' = k
  /\ UNCHANGED <<started, camera, initialCameraPosition, planets, stars, isZooming,
                 now, rafQueue, running, rendered, frames, clicks, lastClick,
                 anims, frameLog, probe>>

\* mouseleave on the hovered .effect div
MouseLeave ==
  /\ started
  /\ running = <<>>
  /\ hoverDiv # 0
  /\ hoverDiv' = 0
  /\ UNCHANGED <<started, camera, initialCameraPosition, planets, stars, isZooming,
                 now, rafQueue, running, rendered, frames, clicks, lastClick,
                 anims, frameLog, probe>>

\* ------------------------------------------------------------ specifications
\* Click targets of the timing specification: outside, the first and the
\* last zone.
ClickTargets == {0, 1, planetCount}

\* Spec: every frame timing, clicks on ClickTargets.
Next ==
  \/ Load
  \/ \E d \in FrameDeltas : BeginFrame(d)
  \/ RunAnimate
  \/ RunUpdateCamera
  \/ \E target \in ClickTargets : Click(target)

Spec == Init /\ [][Next]_vars

\* SpecZones: every zone is clicked and hovered; frames are 1000 ms apart.
NextZones ==
  \/ Load
  \/ BeginFrame(1000)
  \/ RunAnimate
  \/ RunUpdateCamera
  \/ \E target \in {0} \cup Zones : Click(target)
  \/ \E k \in Zones : MouseEnter(k)
  \/ MouseLeave

SpecZones == Init /\ [][NextZones]_vars

\* SpecLive: frames keep being delivered and wall-clock time advances
\* between them.  A click is accepted while the frames the model still
\* delivers suffice for its animation to reach its duration.
PositiveDeltas == FrameDeltas \ {0}

FramesToFinish ==
  defaultDuration \div (CHOOSE d \in PositiveDeltas : \A e \in PositiveDeltas : d <= e)

LiveClick(target) ==
  /\ frames + FramesToFinish <= MaxFrames
  /\ Click(target)

LiveFrame == \E d \in PositiveDeltas : BeginFrame(d)

\* What the browser does on its own: finish the script, deliver a frame,
\* run the frame's next callback.
Schedule ==
  \/ Load
  \/ LiveFrame
  \/ RunAnimate
  \/ RunUpdateCamera

LiveTargets == {0, 1}

NextLive ==
  \/ Schedule
  \/ \E target \in LiveTargets : LiveClick(target)

SpecLive == InitOne /\ [][NextLive]_vars /\ WF_vars(Schedule)

\* SpecStars: any stars of StarChoices; one layout, frames 1000 ms apart.
InitStarsAny ==
  /\ InitScene({LayoutA})
  /\ stars \in [StarIds -> StarChoices]
  /\ probe = NoProbe

NextStars ==
  \/ Load
  \/ BeginFrame(1000)
  \/ RunAnimate
  \/ RunUpdateCamera
  \/ \E target \in LiveTargets : Click(target)

SpecStars == InitStarsAny /\ [][NextStars]_vars

\* SpecEase: the easing function on its own, on every pair of fractions of
\* [0, 1] with a denominator up to EaseGrid.
UnitInputs ==
  {Frac(p[1], p[2]) : p \in {q \in (0 .. EaseGrid) \X (1 .. EaseGrid) : q[1] <= q[2]}}

InitEase ==
  /\ InitScene({LayoutA})
  /\ stars = InitStars
  /\ \E t1, t2 \in UnitInputs :
       probe = [stage |-> "in", t1 |-> t1, t2 |-> t2, e1 |-> <<0, 1>>, e2 |-> <<0, 1>>]

EvalEase ==
  /\ probe.stage = "in"
  /\ probe' = [probe EXCEPT !.stage = "out",
                            !.e1 = easeInOutQuad(probe.t1),
                            !.e2 = easeInOutQuad(probe.t2)]
  /\ UNCHANGED sceneVars

NextEase == EvalEase

SpecEase == InitEase /\ [][NextEase]_vars

\* SpecShade: the fragment shader on its own, drawing two fragments of one
\* planet: two surface normals, the fbm value at each, and what atan(0, 0)
\* yields on this GPU.
Normals ==
  ({Vec(x, y, z) : <<x, y, z>> \in (-1 .. 1) \X (-1 .. 1) \X (-1 .. 1)} \ {Vec(0, 0, 0)})
    \cup {Vec(2, 0, 1), Vec(-1, 0, 2)}

NoiseChoices == {<<1, 4>>, <<1, 2>>, <<3, 5>>}

Atan00Choices ==
  {[cos |-> Surd(1, 1, 1), sin |-> Surd(0, 0, 1)],
   [cos |-> Surd(0, 0, 1), sin |-> Surd(1, 1, 1)]}

IsPole(v) == v.x = 0 /\ v.z = 0

NoFragment == [color |-> mix(vec3(0, 0, 0), vec3(0, 0, 0), <<0, 1>>),
               lightIntensity |-> Affine(Surd(0, 0, 1), <<1, 1>>, <<0, 1>>)]

InitShade ==
  /\ InitScene({LayoutA})
  /\ stars = InitStars
  /\ \E i \in PlanetIds, v1, v2 \in Normals, n1, n2 \in NoiseChoices, a \in Atan00Choices :
       /\ (IsPole(v1) \/ IsPole(v2) \/ a.sin.sign = 0)
       /\ probe = [stage |-> "fragment", planet |-> i, v1 |-> v1, v2 |-> v2,
                   n1 |-> n1, n2 |-> n2, atan00 |-> a,
                   f1 |-> NoFragment, f2 |-> NoFragment]

\* The GPU runs the fragment shader of the planet's material on both fragments.
Shade ==
  /\ probe.stage = "fragment"
  /\ LET uPlanet == planets[probe.planet].uPlanet
     IN probe' = [probe EXCEPT
                    !.stage = "shaded",
                    !.f1 = fragmentShader(probe.v1, uPlanet, probe.n1, probe.atan00),
                    !.f2 = fragmentShader(probe.v2, uPlanet, probe.n2, probe.atan00)]
  /\ UNCHANGED sceneVars

NextShade == Shade

SpecShade == InitShade /\ [][NextShade]_vars

\* ------------------------------------------------------------ observers
\* Every registered callback: those already registered for the next frame,
\* then those the current frame has still to run.
Callbacks == rafQueue \o running

IsUpdateCamera(cb) == cb.fn = "updateCamera"

\* The animations (by number of their animateCamera call) with a pending step.
Pending == {Callbacks[k].id : k \in {j \in 1 .. Len(Callbacks) : IsUpdateCamera(Callbacks[j])}}

AnimIds == 1 .. (MaxClicks + 1)

\* How many pending steps animation i has.
PendingSteps(i) == Cardinality({k \in 1 .. Len(Callbacks) : Callbacks[k].id = i})

\* The frame's next callback is an animation step / that step's elapsed time.
StepNext == running # <<>> /\ IsUpdateCamera(Head(running))

StepElapsed == now - Head(running).startTime

\* The step about to run is its animation's last (t = 1).
FinalStepNext == StepNext /\ StepElapsed >= Head(running).duration

\* The eased t in eighths, for elapsed times on the 500 ms grid of a
\* 2000 ms animation: ease(0) = 0, ease(1/4) = 1/8, ease(1/2) = 1/2,
\* ease(3/4) = 7/8, ease(1) = 1.
EaseEighths(elapsed, duration) ==
  IF elapsed >= duration THEN 8
  ELSE IF 4 * elapsed = 3 * duration THEN 7
  ELSE IF 2 * elapsed = duration THEN 4
  ELSE IF 4 * elapsed = duration THEN 1
  ELSE 0

\* start + (target - start) * ease(t), component c, from the table above.
TableCoord(s, g, eighths) == s + ((g - s) \div 8) * eighths

TablePos(cb, time) ==
  LET e == EaseEighths(time - cb.startTime, cb.duration)
  IN Vec(TableCoord(cb.startPosition.x, cb.targetPosition.x, e),
         TableCoord(cb.startPosition.y, cb.targetPosition.y, e),
         TableCoord(cb.startPosition.z, cb.targetPosition.z, e))

\* No interpolation of the model rounds: the eased t's denominator divides
\* every coordinate difference it multiplies.
GridExact ==
  StepNext =>
    LET cb == Head(running)
        a == easeInOutQuad(Progress(StepElapsed, cb.duration))
    IN /\ (cb.targetPosition.x - cb.startPosition.x) % 8 = 0
       /\ (cb.targetPosition.y - cb.startPosition.y) % 8 = 0
       /\ (cb.targetPosition.z - cb.startPosition.z) % 8 = 0
       /\ 8 % a[2] = 0
       /\ StepElapsed % 500 = 0

\* The frame has run all its callbacks.
FrameEnd == started /\ running = <<>> /\ frameLog # <<>>

LogSteps == SelectSeq(frameLog, LAMBDA e : IsUpdateCamera(e.cb))

\* ------------------------------------------------------------ C1
\* C1: under fair frames with advancing time, eventually no animation has a
\* pending step any more (each reached its step with t = 1), and an
\* animation without a pending step never gets one again, however many
\* other animations are in flight.
C1_EveryAnimationStops ==
  /\ <>[](Pending = {})
  /\ [][\A i \in AnimIds : (i <= anims /\ i \notin Pending) => (i \notin Pending')]_vars

\* Animation 1 has stopped while animation 2, started during it, still runs.
C1_Witness == anims = 2 /\ Pending = {2} /\ frames >= 3

\* ------------------------------------------------------------ C2
\* C2: whenever some animation has a pending step, isZooming is false.
C2_FlagFalseWhilePending == (Pending # {}) => ~isZooming

\* What the flag does instead: a request sets isZooming false; the flag turns
\* true only in a step in which some animation performs its final step, and
\* turns false only in a request.
C2_FlagFalseUntilAFinalStep ==
  [][/\ (anims' > anims) => ~isZooming'
     /\ (isZooming' /\ ~isZooming) => (FinalStepNext /\ Head(running).id \notin Pending')
     /\ (~isZooming' /\ isZooming) => (anims' > anims)]_vars

\* ------------------------------------------------------------ C3
\* Callbacks run in registration order: the main loop first, then the
\* animations by age.
C3_Order ==
  \A a, b \in 1 .. Len(Callbacks) : a < b => Callbacks[a].id < Callbacks[b].id

\* At the end of a frame in which animations stepped, the last callback run
\* is the step of the most recently started of them, the camera is where it
\* put it, and every animation requested before the frame and still pending
\* has stepped in it.
C3_FrameEndCamera ==
  (FrameEnd /\ LogSteps # <<>>) =>
    LET last == frameLog[Len(frameLog)]
    IN /\ IsUpdateCamera(last.cb)
       /\ \A k \in 1 .. Len(frameLog) : frameLog[k].cb.id <= last.cb.id
       /\ camera = TablePos(last.cb, now)
       /\ \A k \in 1 .. Len(rafQueue) :
            (IsUpdateCamera(rafQueue[k]) /\ rafQueue[k].startTime < now)
              => \E j \in 1 .. Len(frameLog) : frameLog[j].cb = rafQueue[k]

\* C3: a request made while an animation is in flight cancels nothing: an
\* animation loses its pending step only by its own final step (t = 1), all
\* animations in flight step in every frame, and at the end of a frame in
\* which several stepped the camera is where the one that ran last, the most
\* recently started, put it.
C3_NoCancellation ==
  /\ [](C3_Order /\ C3_FrameEndCamera)
  /\ [][\A i \in Pending :
          i \in Pending' \/ (FinalStepNext /\ Head(running).id = i)]_vars

\* Two animations stepped in one frame, neither finished, and the camera is
\* not where the older one put it.
C3_Witness ==
  /\ FrameEnd
  /\ Len(LogSteps) = 2
  /\ ~LogSteps[1].done /\ ~LogSteps[2].done
  /\ camera # TablePos(LogSteps[1].cb, now)
  /\ camera = TablePos(LogSteps[2].cb, now)

\* ------------------------------------------------------------ C4
\* A step with t < 1 registers itself once more and leaves the flag; a step
\* with t = 1 registers nothing and sets isZooming.
C4_StepAction ==
  StepNext =>
    IF StepElapsed < Head(running).duration
      THEN /\ rafQueue' = Append(rafQueue, Head(running))
           /\ isZooming' = isZooming
      ELSE /\ rafQueue' = rafQueue
           /\ isZooming' = TRUE

\* C4: an animation step requests one further step if and only if t < 1,
\* and at t = 1 sets isZooming and requests none; so an animation never has
\* more than one pending step, and none once it has finished.
C4_OneStepWhileInFlight ==
  /\ [](\A i \in AnimIds : PendingSteps(i) <= 1 /\ (i > anims => PendingSteps(i) = 0))
  /\ [][C4_StepAction]_vars
  /\ [][\A i \in AnimIds : (i <= anims /\ i \notin Pending) => (i \notin Pending')]_vars

\* An animation has just performed its final step while another still has
\* its one pending step.
C4_Witness ==
  /\ LogSteps # <<>>
  /\ LogSteps[Len(LogSteps)].done
  /\ isZooming
  /\ \E i \in AnimIds : PendingSteps(i) = 1

\* ------------------------------------------------------------ C5
\* The step dispatches a click whose target is `target`.
ClickStep(target) == clicks' = clicks + 1 /\ lastClick' = target

\* planet[k - 1].position - (2, 1, -5)
PlanetTarget(k) ==
  Vec(planets[k - 1].position.x - 2 * Grid,
      planets[k - 1].position.y - Grid,
      planets[k - 1].position.z + 5 * Grid)

\* The step starts exactly one animation, from the camera's position towards
\* `target`, over 2000 ms.
StartsOnly(target) ==
  /\ anims' = anims + 1
  /\ rafQueue' = Append(rafQueue,
                        [fn |-> "updateCamera", id |-> anims + 1, startPosition |-> camera,
                         targetPosition |-> target, startTime |-> now, duration |-> 2000])

StartsNothing == anims' = anims /\ rafQueue' = rafQueue /\ camera' = camera

\* C5, with hovering: a click outside every zone starts the zoom to the origin,
\* a click or a hover on zone k starts the zoom to planet k - 1, and nothing
\* else is started.
C5_ClickOrHoverZooms ==
  [][/\ ClickStep(0) => StartsOnly(Vec(0, 0, 50 * Grid))
     /\ \A k \in Zones : ClickStep(k) => StartsOnly(PlanetTarget(k))
     /\ \A k \in Zones : (hoverDiv = 0 /\ hoverDiv' = k) => StartsOnly(PlanetTarget(k))]_vars

\* C5, amended: a click outside every zone starts the zoom to the origin, a
\* click on zone k starts the zoom to planet k - 1 and only that one;
\* entering or leaving a zone with the mouse starts no animation.
C5_OnlyClicksZoom ==
  [][/\ ClickStep(0) => StartsOnly(Vec(0, 0, 50 * Grid))
     /\ \A k \in Zones : ClickStep(k) => StartsOnly(PlanetTarget(k))
     /\ (hoverDiv' # hoverDiv) => StartsNothing]_vars

\* Zone 3 is hovered, after a click on zone 3 and one outside started one
\* animation each.
C5_Witness ==
  /\ hoverDiv = 3
  /\ clicks = 2
  /\ anims = 2
  /\ lastClick = 0
  /\ Len(rafQueue) = 3
  /\ rafQueue[2].targetPosition = PlanetTarget(3)
  /\ rafQueue[3].targetPosition = Vec(0, 0, 50 * Grid)

\* ------------------------------------------------------------ C6
\* Every callback of an animation requested before the step is left as it
\* was registered (start, target, start time).
C6_TargetsKept ==
  \A k \in 1 .. Len(Callbacks') :
    Callbacks'[k].id \in 1 .. anims =>
      \E j \in 1 .. Len(Callbacks) : Callbacks[j] = Callbacks'[k]

\* C6: a click on zone k targets the position planet k - 1 has at the click
\* minus (2, 1, -5), a click outside targets (0, 0, 50); a registered
\* animation keeps its target while the planets drift, and its final step
\* puts the camera on that target; the recorded initial position stays
\* (0, 0, 50) through every step and every drift of the camera.
C6_TargetSelection ==
  /\ [](initialCameraPosition = Vec(0, 0, 50 * Grid))
  /\ [][/\ \A k \in Zones :
             ClickStep(k) => rafQueue'[Len(rafQueue')].targetPosition = PlanetTarget(k)
        /\ ClickStep(0) => rafQueue'[Len(rafQueue')].targetPosition = Vec(0, 0, 50 * Grid)
        /\ C6_TargetsKept
        /\ FinalStepNext => camera' = Head(running).targetPosition]_vars

\* The zoom to planet 2 (zone 3) has finished on the target read at the
\* click, 2 frames of planet drift away from where the planet is now; the
\* camera has drifted off (0, 0, 50) and the recorded position has not.
C6_Witness ==
  /\ FrameEnd
  /\ anims = 1
  /\ lastClick = 3
  /\ Pending = {}
  /\ Len(LogSteps) = 1
  /\ camera = LogSteps[1].cb.targetPosition
  /\ camera.x = planets[2].position.x - 2 * Grid
  /\ camera.z = planets[2].position.z + 5 * Grid + 2 * planetDrift
  /\ camera # initialCameraPosition

\* ------------------------------------------------------------ C7
Between(a, p, b) == (a <= p /\ p <= b) \/ (b <= p /\ p <= a)

\* A step puts the camera at start + (target - start) * ease(t), between
\* start and target; a request captures the camera's position and the time.
C7_StepAction ==
  /\ StepNext =>
       LET cb == Head(running)
       IN /\ camera' = TablePos(cb, now)
          /\ Between(cb.startPosition.x, camera'.x, cb.targetPosition.x)
          /\ Between(cb.startPosition.y, camera'.y, cb.targetPosition.y)
          /\ Between(cb.startPosition.z, camera'.z, cb.targetPosition.z)
  /\ (anims' = anims + 1) =>
       /\ rafQueue'[Len(rafQueue')].startPosition = camera
       /\ rafQueue'[Len(rafQueue')].startTime = now

\* start (0,0,50), target (0,0,0), duration 2000, elapsed 1000: (0,0,25)
C7_Example ==
  lerpVectors(Vec(0, 0, 50 * Grid), Vec(0, 0, 0),
              easeInOutQuad(Progress(1000, 2000))) = Vec(0, 0, 25 * Grid)

\* C7: every step puts the camera at start + (target - start) * ease(t) for
\* the start captured at the request; the position lies between start and
\* target in every coordinate; and start (0,0,50), target (0,0,0), duration
\* 2000, elapsed 1000 give (0,0,25).
C7_StepInterpolates == []C7_Example /\ [][C7_StepAction]_vars

\* A step at a quarter of the duration has moved the camera an eighth of the
\* way, from a start that is itself a position of the main loop's drift.
C7_Witness ==
  /\ LogSteps # <<>>
  /\ LET cb == LogSteps[Len(LogSteps)].cb
     IN /\ 4 * (now - cb.startTime) = cb.duration
        /\ camera.z = cb.startPosition.z + (cb.targetPosition.z - cb.startPosition.z) \div 8
        /\ camera # cb.startPosition
        /\ cb.startPosition.z < 50 * Grid

\* ------------------------------------------------------------ C8
\* At the end of a frame in which one animation alone stepped, and finished,
\* the camera is on its target.
C8_FrameEnd ==
  (FrameEnd /\ Len(LogSteps) = 1 /\ LogSteps[1].done) =>
    camera = LogSteps[1].cb.targetPosition

\* C8: a step at t = 0 puts the camera exactly on the start position, a step
\* at t = 1 exactly on the target; and at the end of the frame in which a
\* sole animation performs its final step the camera is on its target.
C8_Endpoints ==
  /\ []C8_FrameEnd
  /\ [][/\ (StepNext /\ StepElapsed = 0) => camera' = Head(running).startPosition
        /\ FinalStepNext => camera' = Head(running).targetPosition]_vars

\* A sole animation, requested more than its duration ago, has performed its
\* final step in this frame, after the main loop's callback.
C8_Witness ==
  /\ FrameEnd
  /\ Len(frameLog) = 2
  /\ Len(LogSteps) = 1
  /\ LogSteps[1].done
  /\ now - LogSteps[1].cb.startTime > LogSteps[1].cb.duration
  /\ camera = LogSteps[1].cb.targetPosition
  /\ camera # LogSteps[1].cb.startPosition

\* ------------------------------------------------------------ C9
\* C9: ease(0) = 0, ease(1/2) = 1/2, ease(1) = 1, and t1 <= t2 implies
\* ease(t1) <= ease(t2), for all fractions t1, t2 of [0, 1] on the grid.
C9_EaseEndpointsMonotone ==
  probe.stage = "out" =>
    /\ (probe.t1 = <<0, 1>>) => (probe.e1 = <<0, 1>>)
    /\ (probe.t1 = <<1, 2>>) => (probe.e1 = <<1, 2>>)
    /\ (probe.t1 = <<1, 1>>) => (probe.e1 = <<1, 1>>)
    /\ FracLeq(probe.t1, probe.t2) => FracLeq(probe.e1, probe.e2)

\* The easing function was applied on both sides of 1/2.
C9_Witness ==
  /\ probe.stage = "out"
  /\ probe.t1 = <<3, 8>>
  /\ probe.t2 = <<5, 8>>
  /\ probe.e1 = <<9, 32>>
  /\ probe.e2 = <<23, 32>>

\* ------------------------------------------------------------ C10
\* The step runs the body of animate().
AnimateNext == ~started \/ (running # <<>> /\ Head(running).fn = "animate")

\* C10: in every run of the main loop's body a star whose z
\* relative to the camera (star z minus camera z) is above 5 moves 500 back
\* along z, and every other star, and every x and y, stay as they are.
C10_PassedStarsRecycled ==
  [][AnimateNext =>
       \A i \in StarIds :
         /\ stars'[i].x = stars[i].x
         /\ stars'[i].y = stars[i].y
         /\ stars'[i].z = IF stars[i].z - camera'.z > 5 * Grid
                            THEN stars[i].z - 500 * Grid
                            ELSE stars[i].z]_vars

\* What the recycler does instead: the test is star z plus camera z above 5.
C10_SumAboveThresholdRecycled ==
  [][AnimateNext =>
       \A i \in StarIds :
         /\ stars'[i].x = stars[i].x
         /\ stars'[i].y = stars[i].y
         /\ stars'[i].z = IF stars[i].z + camera'.z > 5 * Grid
                            THEN stars[i].z - 500 * Grid
                            ELSE stars[i].z]_vars

\* ------------------------------------------------------------ C11
Shaded == probe.stage = "shaded"

\* Component k of the unlit colour is 0.
UnlitZero(color, k) ==
  \/ color.x[k] = 0 /\ color.y[k] = 0
  \/ color.x[k] = 0 /\ color.aSq[1] = 0
  \/ color.y[k] = 0 /\ color.aSq = <<1, 1>>

\* color[k] * lightIntensity >= color[k] / 2, for color[k] >= 0
ShadedAtLeastHalf(f, k) == UnlitZero(f.color, k) \/ AffineGeq(f.lightIntensity, <<1, 2>>)

\* C11: for every surface normal the lighting factor is at least 0.5, and
\* no component of the shaded colour is less than half the unlit one.
C11_NeverBelowHalf ==
  Shaded =>
    /\ AffineGeq(probe.f1.lightIntensity, <<1, 2>>)
    /\ \A k \in 1 .. 3 : ShadedAtLeastHalf(probe.f1, k)

\* C11, amended: the lighting factor lies in [0, 1]; it is at least 0.5
\* exactly for the normals that do not face away from the light
\* (x + y + z >= 0), where no component of the shaded colour is below half
\* the unlit one; and it is 0 for the normal opposite to the light.
C11_HalfLambertRange ==
  Shaded =>
    LET v == probe.v1
        l == probe.f1.lightIntensity
    IN /\ AffineGeq(l, <<0, 1>>)
       /\ AffineLeq(l, <<1, 1>>)
       /\ AffineGeq(l, <<1, 2>>) <=> (v.x + v.y + v.z >= 0)
       /\ (v.x + v.y + v.z >= 0) => \A k \in 1 .. 3 : ShadedAtLeastHalf(probe.f1, k)
       /\ (v.x < 0 /\ v.x = v.y /\ v.y = v.z) => AffineLeq(l, <<0, 1>>)
       /\ (v.x > 0 /\ v.x = v.y /\ v.y = v.z) => AffineGeq(l, <<1, 1>>)

\* A fragment whose normal is opposite to the light was shaded: the factor
\* is 0, below a half.
C11_Witness ==
  /\ Shaded
  /\ probe.v1 = Vec(-1, -1, -1)
  /\ AffineLeq(probe.f1.lightIntensity, <<0, 1>>)
  /\ ~AffineGeq(probe.f1.lightIntensity, <<1, 2>>)
  /\ ~ShadedAtLeastHalf(probe.f1, 1)

\* ------------------------------------------------------------ C12
\* The two fragments have the same V and different U.
SameVDifferentU ==
  LET uv1 == sphericalUV(probe.v1, probe.atan00)
      uv2 == sphericalUV(probe.v2, probe.atan00)
  IN uv1.y = uv2.y /\ uv1.x # uv2.x

\* Every component of the unlit colour is 0.
Black(color) == \A k \in 1 .. 3 : UnlitZero(color, k)

FactorZero(l) == AffineLeq(l, <<0, 1>>) /\ AffineGeq(l, <<0, 1>>)

\* color * lightIntensity is the same vector for both fragments of a planet:
\* both products are 0, or the factors of one equal the factors of the other
\* (the two colours of a style's mix are not parallel, so no other pair of
\* products agrees in all three components).
SameFragColor(f1, f2) ==
  \/ (Black(f1.color) \/ FactorZero(f1.lightIntensity))
       /\ (Black(f2.color) \/ FactorZero(f2.lightIntensity))
  \/ f1 = f2

IsSaturn == planets[probe.planet].uPlanet = 2

\* C12: for style 2, two unit normals with the same V and different U get
\* the same final colour.
C12_SaturnFinalColourByLatitude ==
  (Shaded /\ IsSaturn /\ SameVDifferentU) => SameFragColor(probe.f1, probe.f2)

\* (x + y + z) / |v| is the same for both normals.
SameLightDot(v1, v2) ==
  LET s1 == v1.x + v1.y + v1.z
      s2 == v2.x + v2.y + v2.z
  IN Sgn(s1) = Sgn(s2) /\ s1 * s1 * LengthSq(v2) = s2 * s2 * LengthSq(v1)

\* C12, amended: for style 2 the colour before lighting depends only on V,
\* not on U or on the noise field: two unit normals with the same V get the
\* same unlit colour, whatever their U and the noise at each; their final
\* colours, the unlit colour times the lighting factor, are identical if and
\* only if their lighting factors are, that is when (x + y + z) / |v| agrees.
C12_SaturnUnlitColourByLatitude ==
  (Shaded /\ IsSaturn /\ SameVDifferentU) =>
    /\ probe.f1.color = probe.f2.color
    /\ SameFragColor(probe.f1, probe.f2) <=> SameLightDot(probe.v1, probe.v2)

\* Two fragments of the Saturn-like planet on the equator, at longitudes
\* whose sin(10 longitude) differ, with different noise: the same band
\* colour, and different final colours.
C12_Witness ==
  /\ Shaded
  /\ IsSaturn
  /\ probe.v1 = Vec(2, 0, 1)
  /\ probe.v2 = Vec(-1, 0, 0)
  /\ probe.n1 # probe.n2
  /\ SameVDifferentU
  /\ swirl(sphericalUV(probe.v1, probe.atan00)) # swirl(sphericalUV(probe.v2, probe.atan00))
  /\ probe.f1.color = probe.f2.color
  /\ ~SameFragColor(probe.f1, probe.f2)

\* ------------------------------------------------------------ C13
\* Planet i has style i, one of the shader's six branches.
C13_Styles ==
  /\ DOMAIN planets = 0 .. 5
  /\ \A i \in DOMAIN planets :
       /\ planets[i].uPlanet = i
       /\ styleBranch(planets[i].uPlanet) # "none"
  /\ \A i, j \in DOMAIN planets : i # j => planets[i].uPlanet # planets[j].uPlanet

\* A run of the main loop's body moves each planet by -0.0015 in z and turns
\* it by +0.001 about y; no other step changes a planet.
C13_PlanetStep ==
  IF AnimateNext
    THEN \A i \in 0 .. 5 :
           /\ planets'[i].position.x = planets[i].position.x
           /\ planets'[i].position.y = planets[i].position.y
           /\ planets'[i].position.z = planets[i].position.z - (15 * Grid) \div 10000
           /\ planets'[i].rotationY = planets[i].rotationY + Grid \div 1000
           /\ planets'[i].uPlanet = planets[i].uPlanet
    ELSE planets' = planets

\* C13: there are six planets at all times, planet i keeps style i (in
\* 0..5, pairwise distinct), so the shader's black branch is never selected;
\* no frame callback, animation step or event handler changes a style or the
\* set of planets, and a main-loop frame changes only each planet's z (by
\* -0.0015) and y-rotation (by +0.001).
C13_SixPlanetsFixedStyles == []C13_Styles /\ [][C13_PlanetStep]_vars

\* Three runs of the main loop, two clicks and a hover later, planet 5 is
\* 0.0045 behind its initial z and turned by 0.003, with its style.
C13_Witness ==
  /\ frames = 2
  /\ running = <<>>
  /\ anims = 2
  /\ hoverDiv = 6
  /\ planets[5].position.z = -280 * Grid - 3 * ((15 * Grid) \div 10000)
  /\ planets[5].position.x = 50 * Grid
  /\ planets[5].rotationY = 3 * (Grid \div 1000)
  /\ planets[5].uPlanet = 5

\* ------------------------------------------------------------ C14
\* In a frame's log the main loop's callback comes first and once, every
\* animation step after it.
C14_MainLoopFirst ==
  \A k \in 1 .. Len(frameLog) :
    IF k = 1 THEN frameLog[k].cb.fn = "animate" ELSE IsUpdateCamera(frameLog[k].cb)

\* At the end of a frame in which an animation stepped, the camera is at the
\* position interpolated by the step that ran last: a function of that
\* animation's start, target and start time and of the frame's time alone.
C14_FrameEndCamera ==
  (FrameEnd /\ LogSteps # <<>>) =>
    /\ Len(frameLog) = Len(LogSteps) + 1
    /\ camera = TablePos(LogSteps[Len(LogSteps)].cb, now)
    /\ rendered = camera

\* The main loop's callback does all its work in one step: it registers
\* itself, moves the camera by -0.001 in z, recycles the stars against the
\* moved camera and renders it; no animation step acts in between.
C14_MainLoopStep ==
  AnimateNext =>
    /\ rafQueue' = Append(rafQueue, AnimateCb)
    /\ camera' = [camera EXCEPT !.z = @ - Grid \div 1000]
    /\ rendered' = camera'
    /\ \A i \in StarIds :
         stars'[i].z = IF stars[i].z + camera'.z > 5 * Grid
                         THEN stars[i].z - 500 * Grid
                         ELSE stars[i].z
    /\ started => (frameLog = <<>> /\ Len(frameLog') = 1)

\* C14: in every frame in which an animation step runs, the step runs after
\* the main loop's callback, so at the end of the frame the camera is at the
\* animation's interpolated position, whatever the main loop's drift of that
\* frame; and the main loop's callback runs to completion (drift, recycle,
\* render) without an animation step in between.
C14_StepAfterMainLoop ==
  /\ [](C14_MainLoopFirst /\ C14_FrameEndCamera)
  /\ [][C14_MainLoopStep]_vars

\* A frame has run the main loop and then the step of one animation, half
\* way through: the camera is half way between the animation's start and its
\* target, not 0.001 behind where the previous frame left it.
C14_Witness ==
  /\ FrameEnd
  /\ Len(frameLog) = 2
  /\ frameLog[1].cb.fn = "animate"
  /\ IsUpdateCamera(frameLog[2].cb)
  /\ 2 * (now - frameLog[2].cb.startTime) = frameLog[2].cb.duration
  /\ frameLog[2].cb.startTime < now - 500
  /\ 2 * camera.z = frameLog[2].cb.startPosition.z + frameLog[2].cb.targetPosition.z
  /\ camera.z # frameLog[2].cb.startPosition.z

\* ------------------------------------------------------------ C15
\* The step in which the last pending animation performs its final step
\* puts the camera on the target of the most recently requested one.
C15_LastFinalStep ==
  (FinalStepNext /\ Pending' = {}) =>
    /\ Head(running).id = anims
    /\ camera' = Head(running).targetPosition

\* An animation never finishes after one requested later: the pending
\* animations are the most recently requested ones.
C15_LaterFinishLater ==
  \A i \in Pending : \A j \in AnimIds : (i < j /\ j <= anims) => j \in Pending

\* At the end of the frame in which the last final step ran, the camera is
\* on the target of the most recently requested animation.
C15_FrameEnd ==
  (FrameEnd /\ LogSteps # <<>> /\ Pending = {}) =>
    /\ LogSteps[Len(LogSteps)].cb.id = anims
    /\ camera = LogSteps[Len(LogSteps)].cb.targetPosition

=============================================================================
